---- MODULE Spec2Model ----
(***************************************************************************)
(* PCLLocalization (lidar_localization_component.cpp): the lifecycle node  *)
(* that tracks a 3-D pose by aligning scans against a reference cloud.     *)
(*                                                                         *)
(* Geometry is exact: rotations are the 24 rotations of the cube (integer  *)
(* 3x3 matrices), a quaternion is an integer 4-tuple <<w,x,y,z>> standing  *)
(* for the unit quaternion <<w,x,y,z>>/sqrt(w^2+x^2+y^2+z^2), angles are   *)
(* counted in quarter turns and time in whole seconds.                     *)
(***************************************************************************)
EXTENDS Integers, Sequences, FiniteSets, TLC

\* ------------------------------------------------------------------ bounds
\* Longest trajectory the model lets grow.
MaxPath == 2
\* Longest trajectory while odometry fusion is on.
MaxOdomPath == 1
\* Largest absolute coordinate odometry integration may reach.
MaxCoord == 1
\* Odometry stamps run over 0..MaxTime (seconds).
MaxTime == 2

\* --------------------------------------------------------------- constants
\* declare_parameter defaults of the three frame names.
global_frame_id_ == "map"
odom_frame_id_ == "odom"
base_frame_id_ == "base_link"
\* declare_parameter("score_threshold", 2.0)
score_threshold_ == 2
\* if (dt_odom > 1.0 /* [sec] */)
OdomDtMax == 1

\* ---------------------------------------------------------------- geometry
Abs(n) == IF n < 0 THEN -n ELSE n

Max2(a, b) == IF a < b THEN b ELSE a

ZeroVec == <<0, 0, 0>>

VAdd(a, b) == <<a[1] + b[1], a[2] + b[2], a[3] + b[3]>>

VNeg(a) == <<-a[1], -a[2], -a[3]>>

VScale(k, a) == <<k * a[1], k * a[2], k * a[3]>>

Dot(a, b) == a[1] * b[1] + a[2] * b[2] + a[3] * b[3]

\* Matrices are <<row1, row2, row3>>.
IdMat == <<<<1, 0, 0>>, <<0, 1, 0>>, <<0, 0, 1>>>>

Col(m, j) == <<m[1][j], m[2][j], m[3][j]>>

MatVec(m, v) == <<Dot(m[1], v), Dot(m[2], v), Dot(m[3], v)>>

MatMul(a, b) == [i \in 1..3 |-> [j \in 1..3 |-> Dot(a[i], Col(b, j))]]

Transpose(m) == [i \in 1..3 |-> Col(m, i)]

\* Elementary rotations by n quarter turns (Eigen::AngleAxisd about a unit axis).
Cos4(n) == CASE n % 4 = 0 -> 1 [] n % 4 = 2 -> -1 [] OTHER -> 0

Sin4(n) == CASE n % 4 = 1 -> 1 [] n % 4 = 3 -> -1 [] OTHER -> 0

RotX(n) == <<<<1, 0, 0>>, <<0, Cos4(n), -Sin4(n)>>, <<0, Sin4(n), Cos4(n)>>>>

RotY(n) == <<<<Cos4(n), 0, Sin4(n)>>, <<0, 1, 0>>, <<-Sin4(n), 0, Cos4(n)>>>>

RotZ(n) == <<<<Cos4(n), -Sin4(n), 0>>, <<Sin4(n), Cos4(n), 0>>, <<0, 0, 1>>>>

\* atan2 on the axes, in quarter turns: atan2(0,1)=0, atan2(1,0)=1,
\* atan2(0,-1)=2 (pi), atan2(-1,0)=-1.
Atan2Q(y, x) ==
  CASE y > 0 /\ x = 0 -> 1
    [] y < 0 /\ x = 0 -> -1
    [] y = 0 /\ x < 0 -> 2
    [] OTHER -> 0

\* Squared length of a quaternion.
Norm2(q) == q[1] * q[1] + q[2] * q[2] + q[3] * q[3] + q[4] * q[4]

\* The integer 4-tuple of a quaternion given up to a positive factor: every
\* non-zero component of a cube rotation's quaternion has the same magnitude.
ReduceQuat(q) ==
  LET m == Max2(Max2(Abs(q[1]), Abs(q[2])), Max2(Abs(q[3]), Abs(q[4])))
  IN  IF m = 0 THEN q ELSE [i \in 1..4 |-> q[i] \div m]

IdQuat == <<1, 0, 0, 0>>

\* Quaternion -> rotation matrix (tf2::fromMsg(Pose, Affine3d), tf2::fromMsg(
\* Transform, tf2::Transform)): the usual quadratic form, over the squared length.
QuatToMat(q) ==
  LET w == q[1]  x == q[2]  y == q[3]  z == q[4]
      n == Norm2(q)
  IN  <<<<(w*w + x*x - y*y - z*z) \div n, (2 * (x*y - w*z)) \div n, (2 * (x*z + w*y)) \div n>>,
        <<(2 * (x*y + w*z)) \div n, (w*w - x*x + y*y - z*z) \div n, (2 * (y*z - w*x)) \div n>>,
        <<(2 * (x*z - w*y)) \div n, (2 * (y*z + w*x)) \div n, (w*w - x*x - y*y + z*z) \div n>>>>

\* Rotation matrix -> quaternion as Eigen::Quaterniond(rot_mat) and
\* tf2::Matrix3x3::getRotation compute it: from the trace when it is positive,
\* else from the largest diagonal entry.
MatToQuat(m) ==
  LET t == m[1][1] + m[2][2] + m[3][3]
  IN  IF t > 0
      THEN ReduceQuat(<<t + 1, m[3][2] - m[2][3], m[1][3] - m[3][1], m[2][1] - m[1][2]>>)
      ELSE LET i0 == IF m[2][2] > m[1][1] THEN 2 ELSE 1
               i == IF m[3][3] > m[i0][i0] THEN 3 ELSE i0
               j == (i % 3) + 1
               k == (j % 3) + 1
               v == [c \in 1..3 |->
                       IF c = i THEN m[i][i] - m[j][j] - m[k][k] + 1
                       ELSE IF c = j THEN m[j][i] + m[i][j]
                       ELSE m[k][i] + m[i][k]]
           IN  ReduceQuat(<<m[k][j] - m[j][k], v[1], v[2], v[3]>>)

\* Hamilton product of two quaternions (Eigen::Quaterniond::operator*).
QuatMul(a, b) ==
  ReduceQuat(<<a[1]*b[1] - a[2]*b[2] - a[3]*b[3] - a[4]*b[4],
               a[1]*b[2] + a[2]*b[1] + a[3]*b[4] - a[4]*b[3],
               a[1]*b[3] - a[2]*b[4] + a[3]*b[1] + a[4]*b[2],
               a[1]*b[4] + a[2]*b[3] - a[3]*b[2] + a[4]*b[1]>>)

\* Eigen::AngleAxisd(n quarter turns, unit axis number ax) as a quaternion:
\* (cos(n*pi/4), sin(n*pi/4) * axis), which has period 8 in n.
AngleAxis(n, ax) ==
  LET h == n % 8
      c == CASE h = 0 -> 1 [] h \in {1, 7} -> 1 [] h \in {3, 5} -> -1 [] h = 4 -> -1 [] OTHER -> 0
      sn == CASE h \in {1, 2, 3} -> 1 [] h \in {5, 6, 7} -> -1 [] OTHER -> 0
  IN  [i \in 1..4 |-> IF i = 1 THEN c ELSE IF i = ax + 1 THEN sn ELSE 0]

\* tf2::Matrix3x3::getRPY (getEulerYPR, first solution), in quarter turns.
\* Every entry of a cube rotation is -1, 0 or 1, so off the singularity the
\* pitch is 0 and its cosine 1.
GetRPY(m) ==
  IF Abs(m[3][1]) >= 1
  THEN IF m[3][1] < 0
       THEN [roll |-> Atan2Q(m[1][2], m[1][3]), pitch |-> 1, yaw |-> 0]
       ELSE [roll |-> Atan2Q(-m[1][2], -m[1][3]), pitch |-> -1, yaw |-> 0]
  ELSE [roll |-> Atan2Q(m[3][2], m[3][3]), pitch |-> 0, yaw |-> Atan2Q(m[2][1], m[1][1])]

\* A rigid transform is [R |-> matrix, t |-> translation].
Rigid(R, t) == [R |-> R, t |-> t]

\* tf2::Transform::operator* : (a * b)(x) = a(b(x)).
TfMul(a, b) == Rigid(MatMul(a.R, b.R), VAdd(MatVec(a.R, b.t), a.t))

\* tf2::Transform::inverse()
TfInverse(a) == Rigid(Transpose(a.R), MatVec(Transpose(a.R), VNeg(a.t)))

\* ------------------------------------------------------------- input sets
\* A pointer is a sequence of length at most one: <<>> is the null pointer.
None == <<>>

Some(v) == <<v>>

\* Parameter sets initializeParameters may read: the declared defaults, and
\* sets that turn each switch the other way. "/map/map.txt" has neither of
\* the two extensions on_activate loads; "ICP" is not one of the four
\* registration names initializeRegistration knows.
Params ==
  { [enable_map_odom_tf |-> FALSE, registration_method |-> "NDT", use_pcd_map |-> FALSE,
     map_path |-> "/map/map.pcd", set_initial_pose |-> FALSE, use_odom |-> FALSE],
    [enable_map_odom_tf |-> TRUE, registration_method |-> "GICP", use_pcd_map |-> FALSE,
     map_path |-> "/map/map.pcd", set_initial_pose |-> TRUE, use_odom |-> FALSE],
    [enable_map_odom_tf |-> FALSE, registration_method |-> "NDT_OMP", use_pcd_map |-> TRUE,
     map_path |-> "/map/map.ply", set_initial_pose |-> TRUE, use_odom |-> FALSE],
    [enable_map_odom_tf |-> FALSE, registration_method |-> "GICP_OMP", use_pcd_map |-> TRUE,
     map_path |-> "/map/map.txt", set_initial_pose |-> FALSE, use_odom |-> FALSE],
    [enable_map_odom_tf |-> FALSE, registration_method |-> "ICP", use_pcd_map |-> FALSE,
     map_path |-> "/map/map.pcd", set_initial_pose |-> FALSE, use_odom |-> FALSE] }

\* Parameter sets with odometry fusion switched on.
OdomParams ==
  { [enable_map_odom_tf |-> FALSE, registration_method |-> "NDT", use_pcd_map |-> FALSE,
     map_path |-> "/map/map.pcd", set_initial_pose |-> FALSE, use_odom |-> TRUE] }

\* initial_pose_x_ .. initial_pose_qw_ (declare_parameter defaults).
initial_pose_ == [pos |-> ZeroVec, q |-> IdQuat]

\* Poses an "initialpose" message may carry.
InitialPoses == { [pos |-> <<1, 1, 0>>, q |-> <<1, 0, 0, 1>>] }

\* header.frame_id values of incoming initial-pose and map messages.
MsgFrames == {global_frame_id_, odom_frame_id_}

\* Stamps of initial-pose messages and of now() at activation.
PoseStamps == {0}

InitialPoseMsgs ==
  { [stamp |-> st, frame_id |-> f, pos |-> p.pos, q |-> p.q] :
      st \in PoseStamps, f \in MsgFrames, p \in InitialPoses }

\* Map messages: a frame and the identity of the cloud they carry.
MapMsgs == [frame_id : MsgFrames, cloud : {"map_msg"}]

\* Scans: a stamp and the sensing frame.
ScanMsgs == { [stamp |-> 1, frame_id |-> base_frame_id_], [stamp |-> 2, frame_id |-> "lidar"] }

\* Final transformations the oracle may report.
Finals ==
  { Rigid(IdMat, <<1, 0, 0>>),
    Rigid(MatMul(RotX(1), RotY(1)), <<0, 0, 1>>) }

\* Final transformations that turn about the vertical axis only.
YawFinals ==
  { Rigid(IdMat, <<1, 0, 0>>),
    Rigid(RotZ(1), <<0, 0, 1>>) }

\* odom -> base transforms the frame graph may hold (as transform messages).
OdomToBase ==
  { [q |-> IdQuat, t |-> <<1, 0, 0>>],
    [q |-> <<1, 0, 0, 1>>, t |-> <<0, 2, 0>>] }

\* Fitness scores the oracle may report: at the threshold and over it.
FitnessScores == {score_threshold_, score_threshold_ + 1}

\* What the environment answers during one cloudReceived call: the two
\* transform lookups, the oracle, and what a read through a null scan
\* pointer yields (None: the process dies; else the header it happens to read).
DefaultInput ==
  [ tf_sensor_ok |-> FALSE, converged |-> FALSE, fitness |-> score_threshold_,
    final |-> Rigid(IdMat, <<1, 0, 0>>), tf_odom_ok |-> FALSE,
    odom_to_base |-> [q |-> IdQuat, t |-> <<1, 0, 0>>], garbage |-> None ]

\* One representative per run of answers, with the finals drawn from F: an
\* answer that is never asked for (the oracle's after a failed sensor
\* lookup, ...) is left at its default.
CycleInputsOf(F) ==
  { in \in [ tf_sensor_ok : BOOLEAN, converged : BOOLEAN, fitness : FitnessScores, final : F,
             tf_odom_ok : BOOLEAN, odom_to_base : OdomToBase,
             garbage : {None, Some([stamp |-> 1, frame_id |-> base_frame_id_])} ] :
      /\ ~in.tf_sensor_ok => in.converged = DefaultInput.converged
      /\ ~in.converged => /\ in.fitness = DefaultInput.fitness
                          /\ in.final = DefaultInput.final
                          /\ in.tf_odom_ok = DefaultInput.tf_odom_ok
      /\ ~in.tf_odom_ok => in.odom_to_base = DefaultInput.odom_to_base }

CycleInputs == CycleInputsOf(Finals)

YawInputs == CycleInputsOf(YawFinals)

\* Odometry samples.
OdomMsgs ==
  [ stamp : 0..MaxTime,
    twist : { [linear |-> ZeroVec, angular |-> ZeroVec],
              [linear |-> <<1, 0, 0>>, angular |-> <<0, 0, 1>>] } ]

\* Odometry samples of a platform that does not turn.
LinearOdomMsgs == { msg \in OdomMsgs : msg.twist.angular = ZeroVec }

\* ------------------------------------------------------------------ state
VARIABLES
  proc,                 \* "running", "crashed" (undefined behaviour), "exited" (exit())
  lifecycle,            \* "unconfigured", "inactive", "active"
  enable_map_odom_tf_, registration_method_, use_pcd_map_, map_path_,
  set_initial_pose_, use_odom_,
  pose_pub_, path_pub_, initial_map_pub_,   \* "null", "inactive", "active"
  initial_pose_sub_, map_sub_, odom_sub_, cloud_sub_, imu_sub_,  \* subscription exists
  registration_,        \* None, or Some([method, target]), target None or Some(cloud)
  map_recieved_, initialpose_recieved_,
  corrent_pose_with_cov_stamped_ptr_,   \* None or Some(pose)
  path_ptr_,            \* None or Some(sequence of stamped poses)
  last_scan_ptr_,       \* None or Some(scan)
  last_odom_received_time_,
  ev,                   \* the handler that ran last and the message it was given
  cyc,                  \* the calls the last cloudReceived made and their answers
  out                   \* the publish calls of the last handler, in order

paramVars ==
  <<enable_map_odom_tf_, registration_method_, use_pcd_map_, map_path_,
    set_initial_pose_, use_odom_>>

pubVars == <<pose_pub_, path_pub_, initial_map_pub_>>

subVars == <<initial_pose_sub_, map_sub_, odom_sub_, cloud_sub_, imu_sub_>>

gateVars == <<map_recieved_, initialpose_recieved_>>

trackVars == <<corrent_pose_with_cov_stamped_ptr_, path_ptr_, last_scan_ptr_>>

ghostVars == <<ev, cyc, out>>

vars ==
  <<proc, lifecycle, paramVars, pubVars, subVars, registration_, gateVars,
    trackVars, last_odom_received_time_, ghostVars>>

\* ----------------------------------------------------------- observations
\* load_ok: no map file load was tried and failed.
Event(h) ==
  [h |-> h, frame_id |-> "", pose |-> None, stamp |-> 0, dt_odom |-> 0, ret |-> "",
   load_ok |-> TRUE]

\* No cloudReceived call.
NoCycle ==
  [ called |-> FALSE, null_msg |-> FALSE, entered |-> FALSE, sensor_lookup |-> "none",
    align |-> "none", warned |-> FALSE, odom_lookup |-> "none" ]

\* A publish call; delivered says whether the message left the node.
Pub(topic, delivered, stamp, child, pos, q, poses) ==
  [ topic |-> topic, delivered |-> delivered, stamp |-> stamp, child |-> child,
    pos |-> pos, q |-> q, poses |-> poses ]

\* rclcpp_lifecycle::LifecyclePublisher::publish drops the message unless the
\* publisher is activated.
Delivered(pub) == pub = "active"

PosePub(pub, p) == Pub("pcl_pose", Delivered(pub), p.stamp, "", p.pos, p.q, <<>>)

PathPub(pub, poses) == Pub("path", Delivered(pub), 0, "", ZeroVec, IdQuat, poses)

\* broadcaster_ is a plain tf2_ros::TransformBroadcaster: it always sends.
TfPub(stamp, child, pos, q) == Pub("tf", TRUE, stamp, child, pos, q, <<>>)

MapPub(pub) == Pub("initial_map", Delivered(pub), 0, "", ZeroVec, IdQuat, <<>>)

\* ---------------------------------------------------------------- handlers
\* The members a handler reads and writes, as a record a handler maps to the
\* record after it. out and cyc collect what it published and which calls it
\* made (cyc.warned: it logged the fitness warning); guess and source are
\* what it handed the oracle.
Self ==
  [ est |-> corrent_pose_with_cov_stamped_ptr_, path |-> path_ptr_,
    scan |-> last_scan_ptr_, ipr |-> initialpose_recieved_, mapr |-> map_recieved_,
    pose_pub |-> pose_pub_, path_pub |-> path_pub_, proc |-> proc,
    out |-> <<>>, cyc |-> NoCycle,
    guess |-> None, source |-> None ]

\* A variant of the gate that asks for the initial pose only.
NotReadyNoPose(s) == ~s.ipr

\* if (!map_recieved_ || !initialpose_recieved_) {return;}
NotReady(s) == ~s.mapr \/ ~s.ipr

\* A variant whose sensor -> base lookup failure is not caught as one.
SensorLookupNeverThrows(in) == FALSE

\* catch (const tf2::TransformException &) around the sensor -> base lookup
SensorLookupThrows(in) == ~in.tf_sensor_ok

\* A variant that never takes the non-convergence return.
NeverNotConverged(in) == FALSE

\* A variant that also returns when the fitness score is over the threshold.
NotConvergedOrPoor(in) == ~in.converged \/ in.fitness > score_threshold_

\* if (!has_converged) { ... return; }
NotConverged(in) == ~in.converged

\* if (fitness_score > score_threshold_) { RCLCPP_WARN(...) }
OverThreshold(in) == in.fitness > score_threshold_

\* A variant whose odom -> base lookup failure is not caught as one.
OdomLookupNeverThrows(in) == FALSE

\* catch (tf2::TransformException &) around the odom -> base lookup
OdomLookupThrows(in) == ~in.tf_odom_ok

\* A variant that keeps the position of the pose and drops its orientation.
InitGuessPositionOnly(pose) == Rigid(IdMat, pose.pos)

\* tf2::fromMsg(pose, affine); init_guess = affine.matrix()
InitGuess(pose) == Rigid(QuatToMat(pose.q), pose.pos)

\* A variant with the two factors the other way round.
MapToOdomSwapped(map_to_base_link_tf, odom_to_base_link_tf) ==
  TfMul(TfInverse(odom_to_base_link_tf), map_to_base_link_tf)

\* map_to_odom_tf = map_to_base_link_tf * odom_to_base_link_tf.inverse()
MapToOdom(map_to_base_link_tf, odom_to_base_link_tf) ==
  TfMul(map_to_base_link_tf, TfInverse(odom_to_base_link_tf))

\* A variant that republishes the trajectory without the push_back.
FinishWithoutAppend(s, scan, ptr) ==
  [s EXCEPT !.out = Append(@, PathPub(s.path_pub, s.path[1])), !.scan = ptr]

\* A variant whose trajectory keeps the latest pose only.
FinishReplacing(s, scan, ptr) ==
  LET pose == s.est[1]
      poses == <<[stamp |-> scan.stamp, frame_id |-> global_frame_id_,
                  pos |-> pose.pos, q |-> pose.q]>>
  IN  [s EXCEPT !.path = Some(poses),
                !.out = Append(@, PathPub(s.path_pub, poses)),
                !.scan = ptr]

\* Lines 567-574: append the pose to the trajectory, republish it, remember
\* the scan pointer the handler was called with.
Finish(s, scan, ptr) ==
  LET pose == s.est[1]
      poses == Append(s.path[1],
                      [stamp |-> scan.stamp, frame_id |-> global_frame_id_,
                       pos |-> pose.pos, q |-> pose.q])
  IN  [s EXCEPT !.path = Some(poses),
                !.out = Append(@, PathPub(s.path_pub, poses)),
                !.scan = ptr]

\* Lines 518-565: take the final transformation as the estimate, publish the
\* pose, then the frame transform.
Accept(s, scan, ptr, in) ==
  LET final == in.final
      quat == MatToQuat(final.R)
      est1 == [stamp |-> scan.stamp, frame_id |-> global_frame_id_,
               pos |-> final.t, q |-> quat]
      s1 == [s EXCEPT !.est = Some(est1),
                      !.out = Append(@, PosePub(s.pose_pub, est1))]
  IN  IF ~enable_map_odom_tf_
      THEN Finish([s1 EXCEPT !.out = Append(@, TfPub(scan.stamp, base_frame_id_, final.t, quat))],
                  scan, ptr)
      ELSE LET s2 == [s1 EXCEPT !.cyc.odom_lookup = IF in.tf_odom_ok THEN "ok" ELSE "fail"]
               map_to_base == Rigid(QuatToMat(quat), final.t)
               odom_to_base == Rigid(QuatToMat(in.odom_to_base.q), in.odom_to_base.t)
               map_to_odom == MapToOdom(map_to_base, odom_to_base)
           IN  IF OdomLookupThrows(in)
               THEN s2
               ELSE Finish([s2 EXCEPT !.out = Append(@, TfPub(scan.stamp, odom_frame_id_,
                                                            map_to_odom.t,
                                                            MatToQuat(map_to_odom.R)))],
                           scan, ptr)

\* A variant in which non-convergence closes the gate until a new initial
\* pose arrives.
AlignLatching(s, scan, ptr, in) ==
  LET s1 == [s EXCEPT !.cyc.align = IF in.converged THEN "converged" ELSE "failed",
                      !.guess = Some(InitGuess(s.est[1])),
                      !.source = Some(scan)]
  IN  IF NotConverged(in)
      THEN [s1 EXCEPT !.ipr = FALSE]
      ELSE Accept([s1 EXCEPT !.cyc.warned = OverThreshold(in)], scan, ptr, in)

\* Lines 497-516: seed the oracle with the current estimate and align.
Align(s, scan, ptr, in) ==
  LET s1 == [s EXCEPT !.cyc.align = IF in.converged THEN "converged" ELSE "failed",
                      !.guess = Some(InitGuess(s.est[1])),
                      !.source = Some(scan)]
  IN  IF NotConverged(in)
      THEN s1
      ELSE Accept([s1 EXCEPT !.cyc.warned = OverThreshold(in)], scan, ptr, in)

\* Lines 449-474: bring the cloud into the base frame.
ToBaseFrame(s, scan, ptr, in) ==
  IF scan.frame_id # base_frame_id_
  THEN LET s1 == [s EXCEPT !.cyc.sensor_lookup = IF in.tf_sensor_ok THEN "ok" ELSE "fail"]
       IN  IF SensorLookupThrows(in) THEN s1 ELSE Align(s1, scan, ptr, in)
  ELSE Align(s, scan, ptr, in)

\* cloudReceived(msg): msg is a scan pointer, possibly null. Past the gate the
\* handler reads *msg; through a null pointer that is undefined behaviour,
\* which either ends the process or reads whatever header in.garbage holds.
cloudReceived(s, msg, in) ==
  LET s0 == [s EXCEPT !.cyc = [NoCycle EXCEPT !.called = TRUE, !.null_msg = (msg = None)]]
      s1 == [s0 EXCEPT !.cyc.entered = TRUE]
  IN  IF NotReady(s)
      THEN s0
      ELSE IF msg = None
           THEN IF in.garbage = None
                THEN [s1 EXCEPT !.proc = "crashed"]
                ELSE ToBaseFrame(s1, in.garbage[1], msg, in)
           ELSE ToBaseFrame(s1, msg[1], msg, in)

\* A variant that accepts a pose in any frame.
PoseFrameNeverMismatch(msg) == FALSE

\* if (msg->header.frame_id != global_frame_id_) { ... return; }
PoseFrameMismatch(msg) == msg.frame_id # global_frame_id_

\* A variant that replays no scan.
ReplayNothing(s) == None

\* cloudReceived(last_scan_ptr_): the pointer initialPoseReceived replays.
ReplayScan(s) == s.scan

\* initialPoseReceived(msg)
initialPoseReceived(s, msg, in) ==
  IF PoseFrameMismatch(msg)
  THEN s
  ELSE cloudReceived([s EXCEPT !.ipr = TRUE,
                               !.est = Some(msg),
                               !.out = Append(@, PosePub(s.pose_pub, msg))],
                     ReplayScan(s), in)

\* if (msg->header.frame_id != global_frame_id_) { ... return; }  (mapReceived)
MapFrameMismatch(msg) == msg.frame_id # global_frame_id_

\* The cloud setInputTarget is given: voxel-filtered for the GICP family.
Target(cloud) ==
  [cloud |-> cloud, filtered |-> registration_method_ \in {"GICP", "GICP_OMP"}]

\* A variant without the negative-dt return.
DtTooLarge(dt_odom) == dt_odom > OdomDtMax

\* if (dt_odom > 1.0) return;  if (dt_odom < 0.0) return;
DtRejected(dt_odom) == dt_odom > OdomDtMax \/ dt_odom < 0

\* Lines 371-397: integrate one odometry sample into the pose.
Predict(pose, msg, dt_odom) ==
  LET rpy == GetRPY(QuatToMat(pose.q))
      roll == rpy.roll + msg.twist.angular[1] * dt_odom
      pitch == rpy.pitch + msg.twist.angular[2] * dt_odom
      yaw == rpy.yaw + msg.twist.angular[3] * dt_odom
      quat_eig == QuatMul(QuatMul(AngleAxis(roll, 1), AngleAxis(pitch, 2)), AngleAxis(yaw, 3))
      delta_position == MatVec(QuatToMat(quat_eig), VScale(dt_odom, msg.twist.linear))
  IN  [pose EXCEPT !.pos = VAdd(pose.pos, delta_position), !.q = quat_eig]

\* Commit a handler's result to the members.
Commit(r) ==
  /\ corrent_pose_with_cov_stamped_ptr_' = r.est
  /\ path_ptr_' = r.path
  /\ last_scan_ptr_' = r.scan
  /\ initialpose_recieved_' = r.ipr
  /\ proc' = r.proc
  /\ out' = r.out
  /\ cyc' = r.cyc

\* The model stops a trajectory at MaxPath poses (MaxOdomPath with odometry
\* fusion on) and a coordinate at MaxCoord.
Bounded(r) ==
  /\ r.path # None => Len(r.path[1]) <= IF use_odom_ THEN MaxOdomPath ELSE MaxPath
  /\ r.est # None => \A i \in 1..3 : Abs(r.est[1].pos[i]) <= MaxCoord

\* ------------------------------------------------------------- the machine
\* The constructor: nothing is configured. The constructor declares the
\* parameters and initializeParameters copies them into the members, which
\* nothing reads before; the model holds the parameter values in the members
\* from the start and keeps them for the life of the process.
\* last_odom_received_time_ has no initialiser (None) until odomReceived
\* first writes it.
InitWith(P) ==
  /\ proc = "running"
  /\ lifecycle = "unconfigured"
  /\ \E p \in P :
       /\ enable_map_odom_tf_ = p.enable_map_odom_tf
       /\ registration_method_ = p.registration_method
       /\ use_pcd_map_ = p.use_pcd_map
       /\ map_path_ = p.map_path
       /\ set_initial_pose_ = p.set_initial_pose
       /\ use_odom_ = p.use_odom
  /\ pose_pub_ = "null" /\ path_pub_ = "null" /\ initial_map_pub_ = "null"
  /\ initial_pose_sub_ = FALSE /\ map_sub_ = FALSE /\ odom_sub_ = FALSE
  /\ cloud_sub_ = FALSE /\ imu_sub_ = FALSE
  /\ registration_ = None
  /\ map_recieved_ = FALSE
  /\ initialpose_recieved_ = FALSE
  /\ corrent_pose_with_cov_stamped_ptr_ = None
  /\ path_ptr_ = None
  /\ last_scan_ptr_ = None
  /\ last_odom_received_time_ = None
  /\ ev = Event("constructor")
  /\ cyc = NoCycle
  /\ out = <<>>

\* The names initializeRegistration accepts.
KnownMethods == {"GICP", "NDT", "NDT_OMP", "GICP_OMP"}

\* on_configure: read the parameters, create publishers and subscriptions,
\* build the registration object (or exit on an unknown name), start an
\* empty trajectory.
Configure ==
    /\ proc = "running"
    /\ lifecycle = "unconfigured"
    /\ UNCHANGED paramVars
    /\ pose_pub_' = "inactive" /\ path_pub_' = "inactive" /\ initial_map_pub_' = "inactive"
    /\ initial_pose_sub_' = TRUE /\ map_sub_' = TRUE /\ odom_sub_' = TRUE
    /\ cloud_sub_' = TRUE /\ imu_sub_' = TRUE
    /\ IF registration_method_ \in KnownMethods
       THEN /\ registration_' = Some([method |-> registration_method_, target |-> None])
            /\ path_ptr_' = Some(<<>>)
            /\ lifecycle' = "inactive"
            /\ proc' = proc
            /\ ev' = [Event("on_configure") EXCEPT !.ret = "SUCCESS"]
       ELSE /\ proc' = "exited"
            /\ ev' = [Event("on_configure") EXCEPT !.ret = "exit"]
            /\ UNCHANGED <<registration_, path_ptr_, lifecycle>>
    /\ cyc' = NoCycle
    /\ out' = <<>>
    /\ UNCHANGED <<gateVars, corrent_pose_with_cov_stamped_ptr_, last_scan_ptr_,
                   last_odom_received_time_>>

\* map_path_.rfind(".pcd") / rfind(".ply")
MapFormat(path) ==
  CASE path = "/map/map.pcd" -> "pcd"
    [] path = "/map/map.ply" -> "ply"
    [] OTHER -> "other"

\* Lines 64-84: the initial pose seeded from the parameters, stamped now().
SeedMsg(now) ==
  [stamp |-> now, frame_id |-> global_frame_id_, pos |-> initial_pose_.pos, q |-> initial_pose_.q]

\* Lines 60-84 of on_activate: activate the publishers and, if configured,
\* push the seeded pose on the trajectory and hand it to initialPoseReceived.
ActivateSeed(s, now, in) ==
  LET s0 == [s EXCEPT !.pose_pub = "active", !.path_pub = "active"]
  IN  IF set_initial_pose_
      THEN initialPoseReceived([s0 EXCEPT !.path = Some(Append(s0.path[1], SeedMsg(now)))],
                               SeedMsg(now), in)
      ELSE s0

\* A variant that never looks at the extension.
MapLoadFailsOnRead(load_ok) == ~load_ok

\* Lines 86-106: whether loading the map file fails.
MapLoadFails(load_ok) == MapFormat(map_path_) = "other" \/ ~load_ok

\* on_activate, the environment answering from I.
ActivateOn(I) ==
  \E now \in PoseStamps, load_ok \in BOOLEAN, in \in I :
    /\ proc = "running"
    /\ lifecycle = "inactive"
    /\ ~set_initial_pose_ => in = DefaultInput
    /\ in.garbage # None => last_scan_ptr_ = None
    /\ (~use_pcd_map_ \/ MapFormat(map_path_) = "other") => load_ok
    /\ \E r \in {ActivateSeed(Self, now, in)},
          fails \in {use_pcd_map_ /\ MapLoadFails(load_ok)},
          loads \in {use_pcd_map_ /\ ~MapLoadFails(load_ok)} :
           /\ Bounded(r)
           /\ pose_pub_' = "active" /\ path_pub_' = "active" /\ initial_map_pub_' = "active"
           /\ corrent_pose_with_cov_stamped_ptr_' = r.est
           /\ path_ptr_' = r.path
           /\ last_scan_ptr_' = r.scan
           /\ initialpose_recieved_' = r.ipr
           /\ proc' = r.proc
           /\ cyc' = r.cyc
           /\ IF r.proc # "running"
              THEN /\ out' = r.out
                   /\ ev' = [Event("on_activate") EXCEPT
                               !.pose = IF set_initial_pose_ THEN Some(SeedMsg(now)) ELSE None,
                               !.load_ok = load_ok]
                   /\ UNCHANGED <<registration_, map_recieved_, lifecycle>>
              ELSE /\ out' = IF loads THEN Append(r.out, MapPub("active")) ELSE r.out
                   /\ registration_' =
                        IF loads
                        THEN Some([registration_[1] EXCEPT !.target = Some(Target("map_file"))])
                        ELSE registration_
                   /\ map_recieved_' = (map_recieved_ \/ loads)
                   /\ lifecycle' = IF fails THEN "inactive" ELSE "active"
                   /\ ev' = [Event("on_activate") EXCEPT
                               !.pose = IF set_initial_pose_ THEN Some(SeedMsg(now)) ELSE None,
                               !.load_ok = load_ok,
                               !.ret = IF fails THEN "FAILURE" ELSE "SUCCESS"]
    /\ UNCHANGED <<paramVars, subVars, last_odom_received_time_>>

\* on_deactivate
Deactivate ==
  /\ proc = "running"
  /\ lifecycle = "active"
  /\ pose_pub_' = "inactive" /\ path_pub_' = "inactive" /\ initial_map_pub_' = "inactive"
  /\ lifecycle' = "inactive"
  /\ ev' = [Event("on_deactivate") EXCEPT !.ret = "SUCCESS"]
  /\ cyc' = NoCycle
  /\ out' = <<>>
  /\ UNCHANGED <<proc, paramVars, subVars, registration_, gateVars, trackVars,
                 last_odom_received_time_>>

\* on_cleanup: reset the publishers and four of the five subscriptions.
Cleanup ==
  /\ proc = "running"
  /\ lifecycle = "inactive"
  /\ initial_pose_sub_' = FALSE
  /\ initial_map_pub_' = "null" /\ path_pub_' = "null" /\ pose_pub_' = "null"
  /\ odom_sub_' = FALSE /\ cloud_sub_' = FALSE /\ imu_sub_' = FALSE
  /\ lifecycle' = "unconfigured"
  /\ ev' = [Event("on_cleanup") EXCEPT !.ret = "SUCCESS"]
  /\ cyc' = NoCycle
  /\ out' = <<>>
  /\ UNCHANGED <<proc, paramVars, map_sub_, registration_, gateVars, trackVars,
                 last_odom_received_time_>>

\* An "initialpose" message arrives, the environment answering from I.
InitialPoseMsgOn(I) ==
  \E msg \in InitialPoseMsgs, in \in I :
    /\ proc = "running"
    /\ initial_pose_sub_
    /\ msg.frame_id # global_frame_id_ => in = DefaultInput
    /\ in.garbage # None => last_scan_ptr_ = None
    /\ \E r \in {initialPoseReceived(Self, msg, in)} : Bounded(r) /\ Commit(r)
    /\ ev' = [Event("initialPoseReceived") EXCEPT !.frame_id = msg.frame_id, !.pose = Some(msg)]
    /\ UNCHANGED <<lifecycle, paramVars, pubVars, subVars, registration_, map_recieved_,
                   last_odom_received_time_>>

\* A "map" message arrives: mapReceived.
MapMsg ==
  \E msg \in MapMsgs :
    /\ proc = "running"
    /\ map_sub_
    /\ IF MapFrameMismatch(msg)
       THEN UNCHANGED <<registration_, map_recieved_>>
       ELSE /\ registration_' = Some([registration_[1] EXCEPT !.target = Some(Target(msg.cloud))])
            /\ map_recieved_' = TRUE
    /\ ev' = [Event("mapReceived") EXCEPT !.frame_id = msg.frame_id]
    /\ cyc' = NoCycle
    /\ out' = <<>>
    /\ UNCHANGED <<proc, lifecycle, paramVars, pubVars, subVars, initialpose_recieved_,
                   trackVars, last_odom_received_time_>>

\* An "odom" sample arrives: odomReceived. The first dt is taken against the
\* uninitialised last_odom_received_time_, whose read yields any value t0.
\* Past the dt checks the handler reads and writes the estimate; through a
\* null pointer that is undefined behaviour, which ends the process or (segv
\* FALSE) leaves no trace.
OdomMsgOn(M) ==
  \E msg \in M, segv \in BOOLEAN, t0 \in 0..MaxTime :
    /\ proc = "running"
    /\ odom_sub_
    /\ last_odom_received_time_ # None /\ use_odom_ => t0 = last_odom_received_time_[1]
    /\ ~use_odom_ => t0 = 0
    /\ segv \/ (use_odom_ /\ corrent_pose_with_cov_stamped_ptr_ = None)
    /\ ev' = [Event("odomReceived") EXCEPT
                !.stamp = msg.stamp,
                !.dt_odom = IF use_odom_ THEN msg.stamp - t0 ELSE 0]
    /\ cyc' = NoCycle
    /\ out' = <<>>
    /\ IF ~use_odom_
       THEN UNCHANGED <<proc, corrent_pose_with_cov_stamped_ptr_, last_odom_received_time_>>
       ELSE LET dt_odom == msg.stamp - t0
            IN  /\ last_odom_received_time_' = Some(msg.stamp)
                /\ IF DtRejected(dt_odom)
                   THEN UNCHANGED <<proc, corrent_pose_with_cov_stamped_ptr_>>
                   ELSE IF corrent_pose_with_cov_stamped_ptr_ = None
                        THEN /\ proc' = IF segv THEN "crashed" ELSE proc
                             /\ UNCHANGED corrent_pose_with_cov_stamped_ptr_
                        ELSE \E pose \in {Predict(corrent_pose_with_cov_stamped_ptr_[1], msg, dt_odom)} :
                                 /\ \A i \in 1..3 : Abs(pose.pos[i]) <= MaxCoord
                                 /\ corrent_pose_with_cov_stamped_ptr_' = Some(pose)
                                 /\ proc' = proc
    /\ UNCHANGED <<lifecycle, paramVars, pubVars, subVars, registration_, gateVars,
                   path_ptr_, last_scan_ptr_>>

\* An "imu" sample arrives: imuReceived. It returns at once unless use_imu_,
\* and else only feeds the undistortion buffer: no member of the model changes.
ImuMsg ==
  /\ proc = "running"
  /\ imu_sub_
  /\ ev' = Event("imuReceived")
  /\ cyc' = NoCycle
  /\ out' = <<>>
  /\ UNCHANGED <<proc, lifecycle, paramVars, pubVars, subVars, registration_, gateVars,
                 trackVars, last_odom_received_time_>>

\* A "cloud" message (a scan) arrives: cloudReceived, the environment
\* answering from I.
CloudMsgOn(I) ==
  \E msg \in ScanMsgs, in \in I :
    /\ proc = "running"
    /\ cloud_sub_
    /\ in.garbage = None
    /\ \E r \in {cloudReceived(Self, Some(msg), in)} : Bounded(r) /\ Commit(r)
    /\ ev' = Event("cloudReceived")
    /\ UNCHANGED <<lifecycle, paramVars, pubVars, subVars, registration_, map_recieved_,
                   last_odom_received_time_>>

Activate == ActivateOn(CycleInputs)

OdomMsg == OdomMsgOn(OdomMsgs)

InitialPoseMsg == InitialPoseMsgOn(CycleInputs)

CloudMsg == CloudMsgOn(CycleInputs)

Next ==
  \/ Configure
  \/ Activate
  \/ Deactivate
  \/ Cleanup
  \/ InitialPoseMsg
  \/ MapMsg
  \/ OdomMsg
  \/ ImuMsg
  \/ CloudMsg

Init == InitWith(Params)

Spec == Init /\ [][Next]_vars

\* The same machine with odometry fusion configured and an oracle whose
\* answers turn about the vertical axis only.
ActivateYaw == ActivateOn(YawInputs)

InitialPoseMsgYaw == InitialPoseMsgOn(YawInputs)

CloudMsgYaw == CloudMsgOn(YawInputs)

NextOdom ==
  \/ Configure
  \/ ActivateYaw
  \/ Deactivate
  \/ Cleanup
  \/ InitialPoseMsgYaw
  \/ MapMsg
  \/ OdomMsg
  \/ ImuMsg
  \/ CloudMsgYaw

InitOdom == InitWith(OdomParams)

SpecOdom == InitOdom /\ [][NextOdom]_vars

\* Odometry fusion configured, an oracle that may turn the estimate about
\* any axis, and a platform that does not turn.
OdomMsgLinear == OdomMsgOn(LinearOdomMsgs)

NextPredict ==
  \/ Configure
  \/ Activate
  \/ Deactivate
  \/ Cleanup
  \/ InitialPoseMsg
  \/ MapMsg
  \/ OdomMsgLinear
  \/ ImuMsg
  \/ CloudMsg

SpecPredict == InitOdom /\ [][NextPredict]_vars

\* ------------------------------------------------------------------ claims
Running == proc = "running"

GateOpen == map_recieved_ /\ initialpose_recieved_

current_pose == corrent_pose_with_cov_stamped_ptr_

\* The answers to a call on a scan that exists.
ScanAnswers == { in \in CycleInputs : in.garbage = None }

\* The sensor -> base lookup, where the scan needs one, succeeds.
SensorOk(scan, in) == scan.frame_id # base_frame_id_ => in.tf_sensor_ok

\* The oracle converges and every lookup the cycle makes succeeds.
AllSucceed(scan, in) ==
  /\ SensorOk(scan, in)
  /\ in.converged
  /\ enable_map_odom_tf_ => in.tf_odom_ok

\* pose is the oracle's final transformation, stamped as the scan.
IsFinalOf(pose, scan, in) ==
  /\ pose.stamp = scan.stamp
  /\ pose.frame_id = global_frame_id_
  /\ pose.pos = in.final.t
  /\ QuatToMat(pose.q) = in.final.R

\* The pose, trajectory and transform publications among o, in order.
CyclePubs(o) == SelectSeq(o, LAMBDA pub : pub.topic \in {"pcl_pose", "path", "tf"})

\* C1: a scan cycle, run for a scan event or replayed for an initial pose, in
\* which the oracle reports no convergence makes no pose, trajectory or
\* transform publication and leaves the estimate, the trajectory and the
\* remembered scan as they were when the cycle began (for a replay: the
\* estimate just overwritten and published by the initial-pose handler).
C1_Step ==
  cyc'.align = "failed" =>
    /\ last_scan_ptr_' = last_scan_ptr_
    /\ IF ev'.h = "cloudReceived"
       THEN /\ CyclePubs(out') = <<>>
            /\ current_pose' = current_pose
            /\ path_ptr_' = path_ptr_
       ELSE /\ ev'.h \in {"initialPoseReceived", "on_activate"}
            /\ CyclePubs(out') = <<PosePub(pose_pub_', ev'.pose[1])>>
            /\ current_pose' = ev'.pose
            /\ path_ptr_' = IF ev'.h = "on_activate"
                            THEN Some(Append(path_ptr_[1], ev'.pose[1]))
                            ELSE path_ptr_

C1_NonConvergenceShortCircuits == [][C1_Step]_vars

C1_Witness ==
  /\ ev.h = "initialPoseReceived"
  /\ cyc.align = "failed"
  /\ last_scan_ptr_ # None
  /\ Len(path_ptr_[1]) > 0

\* C2: an accepted initial pose re-runs the scan cycle only on a remembered
\* scan: the handler never takes a cycle past its gate with an absent scan.
C2_ReplayOnlyRememberedScan ==
  ev.h = "initialPoseReceived" => ~(cyc.entered /\ cyc.null_msg)

\* C3: once a scan is remembered (a cycle was fully accepted), an initial
\* pose in the global frame runs, inside the handler, a cycle on the
\* remembered scan seeded with the supplied pose; when the oracle converges
\* and the lookups succeed the handler publishes, after the supplied pose, the
\* fresh pose, one transform and the trajectory extended by the fresh pose
\* (all of them leave the node while it is active).
C3_ReplayOnRememberedScan ==
  (Running /\ initial_pose_sub_ /\ last_scan_ptr_ # None) =>
    /\ GateOpen
    /\ \A msg \in InitialPoseMsgs, in \in ScanAnswers :
         msg.frame_id = global_frame_id_ =>
           LET r == initialPoseReceived(Self, msg, in)
               scan == last_scan_ptr_[1]
           IN  /\ r.cyc.entered /\ ~r.cyc.null_msg
               /\ SensorOk(scan, in) =>
                    /\ r.source = last_scan_ptr_
                    /\ r.guess = Some(InitGuess(msg))
               /\ AllSucceed(scan, in) =>
                    /\ IsFinalOf(r.est[1], scan, in)
                    /\ r.path = Some(Append(path_ptr_[1], r.est[1]))
                    /\ Len(r.out) = 4
                    /\ r.out[1] = PosePub(pose_pub_, msg)
                    /\ r.out[2] = PosePub(pose_pub_, r.est[1])
                    /\ r.out[3].topic = "tf" /\ r.out[3].stamp = scan.stamp
                    /\ r.out[4] = PathPub(path_pub_, r.path[1])
                    /\ lifecycle = "active" => \A i \in 1..4 : r.out[i].delivered

C3_Witness ==
  /\ ev.h = "initialPoseReceived"
  /\ ~cyc.null_msg
  /\ cyc.align = "converged"
  /\ Len(out) = 4
  /\ out[2].stamp = last_scan_ptr_[1].stamp

\* C4: every accepted initial pose, from a message or seeded at activation,
\* sets the gate, is published, becomes the estimate, and is appended to the
\* trajectory (once, before anything a replayed cycle appends).
C4_Step ==
  (\/ ev'.h = "initialPoseReceived" /\ ev'.frame_id = global_frame_id_
   \/ ev'.h = "on_activate" /\ set_initial_pose_) =>
    /\ initialpose_recieved_'
    /\ Len(out') >= 1 /\ out'[1] = PosePub(pose_pub_', ev'.pose[1])
    /\ cyc'.align # "converged" => current_pose' = ev'.pose
    /\ Len(path_ptr_'[1]) \in {Len(path_ptr_[1]) + 1, Len(path_ptr_[1]) + 2}
    /\ SubSeq(path_ptr_'[1], 1, Len(path_ptr_[1]) + 1) = Append(path_ptr_[1], ev'.pose[1])

C4_InitialPoseAppended == [][C4_Step]_vars

\* C5: an initial-pose or map message in a frame other than the global frame
\* changes nothing: estimate, trajectory, gate flags, reference cloud and
\* remembered scan stay, nothing is published and no cycle is replayed.
C5_Step ==
  (ev'.h \in {"initialPoseReceived", "mapReceived"} /\ ev'.frame_id # global_frame_id_) =>
    /\ UNCHANGED <<current_pose, path_ptr_, last_scan_ptr_, map_recieved_,
                   initialpose_recieved_, registration_>>
    /\ UNCHANGED <<proc, lifecycle, pubVars, subVars, last_odom_received_time_>>
    /\ out' = <<>>
    /\ ~cyc'.called

C5_FrameMismatchDropped == [][C5_Step]_vars

C5_Witness ==
  /\ ev.h = "initialPoseReceived"
  /\ ev.frame_id # global_frame_id_
  /\ GateOpen
  /\ last_scan_ptr_ # None

\* C6: a scan cycle in which the oracle converges and every lookup succeeds
\* makes the oracle's final transformation, stamped as the scan, the
\* estimate; publishes that pose, then one transform (to the base frame, or
\* to the odom frame when decoupling is on), then the trajectory with that
\* pose appended (all of them leave the node while it is active); and
\* remembers the scan.
C6_Cycle ==
  (Running /\ cloud_sub_ /\ GateOpen) =>
    \A msg \in ScanMsgs, in \in ScanAnswers :
      AllSucceed(msg, in) =>
        LET r == cloudReceived(Self, Some(msg), in)
        IN  /\ IsFinalOf(r.est[1], msg, in)
            /\ r.path = Some(Append(path_ptr_[1], r.est[1]))
            /\ r.scan = Some(msg)
            /\ Len(r.out) = 3
            /\ r.out[1] = PosePub(pose_pub_, r.est[1])
            /\ r.out[2].topic = "tf" /\ r.out[2].stamp = msg.stamp
            /\ r.out[2].child = IF enable_map_odom_tf_ THEN odom_frame_id_ ELSE base_frame_id_
            /\ ~enable_map_odom_tf_ =>
                 r.out[2] = TfPub(msg.stamp, base_frame_id_, r.est[1].pos, r.est[1].q)
            /\ r.out[3] = PathPub(path_pub_, r.path[1])
            /\ lifecycle = "active" => \A i \in 1..3 : r.out[i].delivered

\* ... so that a pose seeded at activation, then a map message, then one such
\* scan, leave a trajectory of exactly two poses.
C6_Scenario ==
  /\ (ev'.h = "on_activate" /\ set_initial_pose_ /\ path_ptr_ = Some(<<>>) /\ ~cyc'.entered) =>
       path_ptr_' = Some(<<ev'.pose[1]>>)
  /\ ev'.h = "mapReceived" => path_ptr_' = path_ptr_
  /\ (/\ ev'.h = "cloudReceived"
      /\ cyc'.align = "converged"
      /\ cyc'.odom_lookup # "fail"
      /\ Len(path_ptr_[1]) = 1) =>
       /\ Len(path_ptr_'[1]) = 2
       /\ path_ptr_'[1][1] = path_ptr_[1][1]
       /\ path_ptr_'[1][2] = current_pose'[1]

C6_SuccessfulCycle == []C6_Cycle /\ [][C6_Scenario]_vars

C6_Witness ==
  /\ set_initial_pose_ /\ ~use_pcd_map_
  /\ ev.h = "cloudReceived"
  /\ cyc.align = "converged" /\ cyc.odom_lookup = "ok"
  /\ registration_[1].target = Some(Target("map_msg"))
  /\ Len(path_ptr_[1]) = 2
  /\ path_ptr_[1][1] = SeedMsg(0)
  /\ path_ptr_[1][2] = current_pose[1]
  /\ Len(out) = 3 /\ out[3].poses = path_ptr_[1]

\* The 24 rotations of the cube.
Rotations ==
  { MatMul(MatMul(RotX(a), RotY(b)), RotZ(c)) : a \in 0..3, b \in 0..3, c \in 0..3 }

\* Answers of a fully successful cycle whose final transformation turns by
\* any rotation of the cube, the base frame turned in the odom frame.
ChainAnswers ==
  { [DefaultInput EXCEPT !.tf_sensor_ok = TRUE, !.converged = TRUE, !.tf_odom_ok = TRUE,
                         !.final = Rigid(R, <<0, -1, 1>>),
                         !.odom_to_base = [q |-> <<1, 0, 0, 1>>, t |-> <<0, 2, 0>>]] :
      R \in Rotations }

\* C7: in an accepted cycle with decoupling on and the odom -> base lookup
\* successful, the published map -> odom transform composed with the
\* looked-up odom -> base transform is the oracle's final transformation.
C7_TransformChain ==
  (Running /\ cloud_sub_ /\ GateOpen /\ enable_map_odom_tf_) =>
    \A msg \in ScanMsgs, in \in ScanAnswers \cup ChainAnswers :
      AllSucceed(msg, in) =>
        LET r == cloudReceived(Self, Some(msg), in)
            sent == r.out[2]
            map_to_odom == Rigid(QuatToMat(sent.q), sent.pos)
            odom_to_base == Rigid(QuatToMat(in.odom_to_base.q), in.odom_to_base.t)
        IN  /\ sent.topic = "tf" /\ sent.child = odom_frame_id_ /\ sent.delivered
            /\ TfMul(map_to_odom, odom_to_base) = in.final

C7_Witness ==
  /\ enable_map_odom_tf_
  /\ ev.h = "cloudReceived"
  /\ cyc.odom_lookup = "ok"
  /\ Len(out) = 3
  /\ out[2].child = odom_frame_id_
  /\ out[2].q # IdQuat
  /\ out[2].q # current_pose[1].q

\* C8: in a converged cycle with decoupling on whose odom -> base lookup
\* fails, the estimate is updated and the pose published, and then the cycle
\* ends: no transform, no trajectory append or publication, and the
\* remembered scan stays.
C8_OdomLookupFailure ==
  (Running /\ cloud_sub_ /\ GateOpen /\ enable_map_odom_tf_) =>
    \A msg \in ScanMsgs, in \in ScanAnswers :
      (SensorOk(msg, in) /\ in.converged /\ ~in.tf_odom_ok) =>
        LET r == cloudReceived(Self, Some(msg), in)
        IN  /\ IsFinalOf(r.est[1], msg, in)
            /\ r.out = <<PosePub(pose_pub_, r.est[1])>>
            /\ r.path = path_ptr_
            /\ r.scan = last_scan_ptr_

C8_Witness ==
  /\ ev.h = "cloudReceived"
  /\ cyc.odom_lookup = "fail"
  /\ Len(out) = 1 /\ out[1].topic = "pcl_pose"
  /\ last_scan_ptr_ # None
  /\ current_pose[1].stamp # last_scan_ptr_[1].stamp

\* C9: two converged cycles that differ only in the reported fitness score,
\* one over the threshold and one not, leave the same estimate, trajectory
\* and remembered scan and make the same publications; the score over the
\* threshold only logs the warning.
C9_FitnessNeverGates ==
  (Running /\ cloud_sub_ /\ GateOpen) =>
    \A msg \in ScanMsgs, in \in ScanAnswers :
      (SensorOk(msg, in) /\ in.converged) =>
        LET lo == cloudReceived(Self, Some(msg), [in EXCEPT !.fitness = score_threshold_])
            hi == cloudReceived(Self, Some(msg), [in EXCEPT !.fitness = score_threshold_ + 1])
        IN  /\ hi.est = lo.est
            /\ hi.path = lo.path
            /\ hi.scan = lo.scan
            /\ hi.out = lo.out
            /\ hi.out # <<>>
            /\ hi.cyc.warned /\ ~lo.cyc.warned

C9_Witness ==
  /\ ev.h = "cloudReceived"
  /\ cyc.align = "converged"
  /\ cyc.warned
  /\ Len(out) = 3
  /\ last_scan_ptr_ # None
  /\ path_ptr_[1][Len(path_ptr_[1])] = current_pose[1]

\* C10: an odometry sample whose dt (its stamp less the time of the sample
\* received before it) is negative or over the threshold leaves the estimate
\* as it was; only a sample with 0 <= dt <= threshold may change it.
C10_Step ==
  (ev'.h = "odomReceived" /\ (ev'.dt_odom < 0 \/ ev'.dt_odom > OdomDtMax)) =>
    current_pose' = current_pose

C10_RejectedDtKeepsEstimate == [][C10_Step]_vars

C10_Witness ==
  /\ ev.h = "odomReceived"
  /\ use_odom_
  /\ ev.dt_odom > OdomDtMax
  /\ current_pose # None

\* Two poses place the platform alike: same position, same rotation (a
\* quaternion and its multiples are one rotation).
SamePlacement(a, b) ==
  /\ a.pos = b.pos
  /\ QuatToMat(a.q) = QuatToMat(b.q)

\* C11: an odometry sample accepted with dt = 0 leaves the current estimate
\* where it was (same position, same rotation), whatever the orientation of
\* the estimate, orientations with more than one non-zero roll/pitch/yaw
\* angle included.
C11_Step ==
  (ev'.h = "odomReceived" /\ use_odom_ /\ ev'.dt_odom = 0
     /\ current_pose # None /\ current_pose' # None) =>
    SamePlacement(current_pose'[1], current_pose[1])

C11_ZeroDtKeepsEstimate == [][C11_Step]_vars

\* Nothing among o left the node.
NothingDelivered(o) == \A i \in DOMAIN o : ~o[i].delivered

\* C12: the event that follows a deactivate transition, unless it is the
\* next activate transition, makes no publication that leaves the node: no
\* pose, no trajectory and no frame-graph transform. (Cycles run on a null
\* scan are left aside: what they do is undefined.)
C12_Step ==
  (ev.h = "on_deactivate" /\ ev'.h # "on_activate" /\ ~cyc'.null_msg) =>
    NothingDelivered(out')

C12_NoPublicationWhileInactive == [][C12_Step]_vars

\* C13: a scan that arrives right after a deactivate transition, the node
\* still inactive, is dropped: the current estimate, the trajectory and the
\* remembered scan stay as they were, even with a map and an initial pose
\* present.
C13_Step ==
  (ev.h = "on_deactivate" /\ lifecycle = "inactive" /\ ev'.h = "cloudReceived") =>
    /\ current_pose' = current_pose
    /\ path_ptr_' = path_ptr_
    /\ last_scan_ptr_' = last_scan_ptr_

C13_ScanDroppedWhileInactive == [][C13_Step]_vars

\* C14: right after on_cleanup both gate flags are false, there is no
\* current estimate and the trajectory holds no pose.
C14_CleanupResetsGate ==
  ev.h = "on_cleanup" =>
    /\ ~map_recieved_
    /\ ~initialpose_recieved_
    /\ current_pose = None
    /\ (path_ptr_ = None \/ path_ptr_[1] = <<>>)

\* C15: between on_cleanup and the next on_configure no message handler
\* runs: the only step the node takes is on_configure, so the registration
\* target and the gate flags stay as on_cleanup left them until then.
C15_Step ==
  (lifecycle = "unconfigured" /\ ev.h # "constructor") =>
    /\ ev'.h = "on_configure"
    /\ UNCHANGED gateVars

C15_CleanupReleasesSubscriptions == [][C15_Step]_vars

\* The map file activation was asked to load cannot serve: its extension is
\* neither of the two supported ones, or reading it failed.
MapFileUnusable(e) == use_pcd_map_ /\ (MapFormat(map_path_) = "other" \/ ~e.load_ok)

\* C16: the node is never active with an unrecognized registration method
\* or with a map file of an unsupported extension; and an activation whose
\* map file has an unsupported extension or cannot be read leaves the node
\* inactive, returns FAILURE, leaves the map flag as it was (false stays
\* false) and publishes no reference-map echo.
C16_Active ==
  lifecycle = "active" =>
    /\ registration_method_ \in {"GICP", "NDT", "NDT_OMP", "GICP_OMP"}
    /\ use_pcd_map_ => MapFormat(map_path_) # "other"

C16_Step ==
  (ev'.h = "on_activate" /\ MapFileUnusable(ev')) =>
    /\ lifecycle' = "inactive"
    /\ proc' = "running" => ev'.ret = "FAILURE"
    /\ map_recieved_' = map_recieved_
    /\ registration_' = registration_
    /\ \A i \in DOMAIN out' : out'[i].topic # "initial_map"

C17_GateClosedDrops ==
  (Running /\ cloud_sub_ /\ ~GateOpen) =>
    \A msg \in ScanMsgs, in \in ScanAnswers :
      LET r == cloudReceived(Self, Some(msg), in)
      IN  /\ r.out = <<>>
          /\ ~r.cyc.entered
          /\ r.cyc.sensor_lookup = "none"
          /\ r.cyc.align = "none" /\ r.source = None
          /\ r.est = current_pose
          /\ r.path = path_ptr_
          /\ r.scan = last_scan_ptr_
          /\ r.ipr = initialpose_recieved_
          /\ r.proc = proc

C17_Witness ==
  /\ ev.h = "cloudReceived"
  /\ cyc.called /\ ~cyc.entered
  /\ initialpose_recieved_ /\ ~map_recieved_
  /\ current_pose # None
  /\ out = <<>>

\* C18: an odometry sample rejected for its dt (negative, or over the
\* threshold) does not advance the reference time the next sample's dt is
\* measured against. (The first sample, measured against an uninitialised
\* time, is left aside.)
C18_Step ==
  (ev'.h = "odomReceived" /\ use_odom_ /\ last_odom_received_time_ # None
     /\ (ev'.dt_odom < 0 \/ ev'.dt_odom > OdomDtMax)) =>
    last_odom_received_time_' = last_odom_received_time_

C18_RejectedDtKeepsReference == [][C18_Step]_vars

\* C19: a scan sensed in a frame other than the base frame whose sensor ->
\* base lookup fails ends its cycle there: the oracle is not invoked,
\* nothing is published, and the estimate, the trajectory, the remembered
\* scan and the gate flags stay as they were.
C19_SensorLookupFailure ==
  (Running /\ cloud_sub_ /\ GateOpen) =>
    \A msg \in ScanMsgs, in \in ScanAnswers :
      (msg.frame_id # base_frame_id_ /\ ~in.tf_sensor_ok) =>
        LET r == cloudReceived(Self, Some(msg), in)
        IN  /\ r.cyc.entered
            /\ r.cyc.sensor_lookup = "fail"
            /\ r.cyc.align = "none" /\ r.source = None
            /\ r.out = <<>>
            /\ r.est = current_pose
            /\ r.path = path_ptr_
            /\ r.scan = last_scan_ptr_
            /\ r.ipr = initialpose_recieved_ /\ r.mapr = map_recieved_

C19_Witness ==
  /\ ev.h = "cloudReceived"
  /\ cyc.entered /\ ~cyc.null_msg
  /\ cyc.sensor_lookup = "fail"
  /\ cyc.align = "none"
  /\ out = <<>>
  /\ GateOpen
  /\ last_scan_ptr_ # None
  /\ current_pose # None

\* The cycle c ended in one of its three failures.
Failed(c) ==
  /\ c.entered
  /\ c.sensor_lookup = "fail" \/ c.align = "failed" \/ c.odom_lookup = "fail"

\* C20: after a cycle that failed (sensor lookup failure, non-convergence
\* or odom lookup failure) both gate flags are still set, and the next scan
\* for which the oracle converges and every lookup succeeds runs one whole
\* cycle, on that scan alone: the oracle is given that scan, its final
\* transformation becomes the estimate, the pose, one transform and the
\* trajectory with just that pose appended are published, and the scan is
\* remembered.
C20_NoFailurePersists ==
  (Running /\ cloud_sub_ /\ Failed(cyc)) =>
    /\ GateOpen
    /\ \A msg \in ScanMsgs, in \in ScanAnswers :
         AllSucceed(msg, in) =>
           LET r == cloudReceived(Self, Some(msg), in)
           IN  /\ r.cyc.entered /\ r.cyc.align = "converged"
               /\ r.source = Some(msg)
               /\ r.guess = Some(InitGuess(current_pose[1]))
               /\ IsFinalOf(r.est[1], msg, in)
               /\ r.path = Some(Append(path_ptr_[1], r.est[1]))
               /\ r.scan = Some(msg)
               /\ Len(r.out) = 3
               /\ r.out[1] = PosePub(pose_pub_, r.est[1])
               /\ r.out[2].topic = "tf" /\ r.out[2].stamp = msg.stamp /\ r.out[2].delivered
               /\ r.out[3] = PathPub(path_pub_, r.path[1])
               /\ r.ipr /\ r.mapr

C20_Witness ==
  /\ ev.h = "cloudReceived"
  /\ Failed(cyc) /\ cyc.align = "failed" /\ ~cyc.null_msg
  /\ Running /\ cloud_sub_ /\ GateOpen
  /\ lifecycle = "active"
  /\ last_scan_ptr_ # None
  /\ Len(path_ptr_[1]) < MaxPath

\* The rigid transform that places the platform as pose does.
PlacementOf(pose) == [R |-> QuatToMat(pose.q), t |-> pose.pos]

\* The positions an initial pose or an oracle result can give the estimate.
GivenPositions ==
  {initial_pose_.pos} \cup { msg.pos : msg \in InitialPoseMsgs }
    \cup { in.final.t : in \in CycleInputs \cup YawInputs }

\* C21: in every cycle that reaches the oracle, the initial guess is the
\* current estimate as the cycle finds it (the last accepted alignment
\* result or initial pose, with the odometry predictions since then on
\* top): for a scan event the estimate of the state, for a replay the
\* initial pose just accepted. A cycle that stops before the oracle hands it
\* nothing, and neither it nor a cycle that does not converge changes the
\* estimate.
C21_GuessIsCurrentEstimate ==
  (Running /\ GateOpen) =>
    /\ cloud_sub_ =>
         \A msg \in ScanMsgs, in \in ScanAnswers :
           LET r == cloudReceived(Self, Some(msg), in)
           IN  /\ SensorOk(msg, in) =>
                    /\ r.guess = Some(PlacementOf(current_pose[1]))
                    /\ r.source = Some(msg)
               /\ ~SensorOk(msg, in) => r.guess = None /\ r.source = None
               /\ (~SensorOk(msg, in) \/ ~in.converged) => r.est = current_pose
    /\ (initial_pose_sub_ /\ last_scan_ptr_ # None) =>
         \A msg \in InitialPoseMsgs, in \in ScanAnswers :
           (msg.frame_id = global_frame_id_ /\ SensorOk(last_scan_ptr_[1], in)) =>
             LET r == initialPoseReceived(Self, msg, in)
             IN  /\ r.guess = Some(PlacementOf(msg))
                 /\ r.source = last_scan_ptr_
                 /\ ~in.converged => r.est = Some(msg)

\* A cycle that did not converge has just run on an estimate that an
\* odometry prediction had moved.
C21_Witness ==
  /\ ev.h = "cloudReceived"
  /\ use_odom_
  /\ cyc.entered /\ ~cyc.null_msg /\ cyc.align = "failed"
  /\ GateOpen
  /\ current_pose[1].pos \notin GivenPositions

\* a is an initial segment of b.
IsPrefix(a, b) == Len(a) <= Len(b) /\ SubSeq(b, 1, Len(a)) = a

\* C22: every step other than on_configure leaves the trajectory it found
\* as an initial segment of the trajectory it leaves (no pose is removed,
\* changed or reordered), and on_configure leaves an empty trajectory.
C22_Step ==
  /\ ev'.h # "on_configure" =>
       \/ path_ptr_ = None /\ path_ptr_' = None
       \/ /\ path_ptr_ # None /\ path_ptr_' # None
          /\ IsPrefix(path_ptr_[1], path_ptr_'[1])
  /\ (ev'.h = "on_configure" /\ ev'.ret = "SUCCESS") => path_ptr_' = Some(<<>>)

C22_TrajectoryAppendOnly == [][C22_Step]_vars

C22_Witness ==
  /\ ev.h = "cloudReceived"
  /\ cyc.align = "converged"
  /\ Len(path_ptr_[1]) = MaxPath
  /\ path_ptr_[1][1] # path_ptr_[1][MaxPath]
  /\ path_ptr_[1][MaxPath].stamp = last_scan_ptr_[1].stamp

\* C23: with odometry fusion on and no estimate yet (no initial pose was
\* accepted), an odometry sample whose dt against the sample received
\* before it lies in 0 .. OdomDtMax completes: the process keeps running
\* and there is still no estimate.
C23_Step ==
  (ev'.h = "odomReceived" /\ use_odom_ /\ current_pose = None
     /\ last_odom_received_time_ # None
     /\ 0 <= ev'.dt_odom /\ ev'.dt_odom <= OdomDtMax) =>
    /\ proc' = "running"
    /\ current_pose' = None

C23_OdomBeforeInitialPose == [][C23_Step]_vars

\* C24: an on_activate that returns FAILURE because of the map file leaves
\* the initial-pose flag, the current estimate, the trajectory and the
\* activation state of the three publishers as they were before the call.
C24_Step ==
  (ev'.h = "on_activate" /\ ev'.ret = "FAILURE") =>
    /\ initialpose_recieved_' = initialpose_recieved_
    /\ current_pose' = current_pose
    /\ path_ptr_' = path_ptr_
    /\ pose_pub_' = pose_pub_
    /\ path_pub_' = path_pub_
    /\ initial_map_pub_' = initial_map_pub_

C24_FailedActivationChangesNothing == [][C24_Step]_vars

====
